---- MODULE Spec2Model ----
(***************************************************************************)
(* MeghaGaah dashboard (src/src/App.jsx): the selection state of           *)
(* MeghaGaahDashboard, the sensor synthesizer generateSensorsFromPositions,*)
(* the Suspense boundary around the terrain and its markers, and the       *)
(* change listener of CameraLogger.                                        *)
(*                                                                         *)
(* Numbers.  A draw of Math.random() is the rational k / RandDen with      *)
(* k in 0 .. RandDen-1.  A formatted metric ("12.3 C", "71%") is the       *)
(* record [n, dp, unit]: the string shows the number n / 10^dp.            *)
(***************************************************************************)
EXTENDS Integers, Sequences, FiniteSets, TLC

VARIABLES
    mounted,        \* the dashboard (and with it CameraLogger) is mounted
    selectedID,     \* useState('m1')
    activeSensor,   \* useState(null): {} is null, {s} is the sensor record s
    mountains,      \* the `mountains` object built by the latest render
    gltfCache,      \* urls whose asset useGLTF has resolved
    gltfPending,    \* urls whose load is in flight
    scene,          \* what the Suspense boundary has committed
    event,          \* the last user event handled: its kind and argument,
                    \* whether a sensor was active, a bit flipped per event
    controlsRef,    \* controlsRef.current: 0 is null, else a controller
    nextController, \* the next OrbitControls instance to be created
    listeners,      \* per controller, the handleChange listeners attached
    effectTarget,   \* the controller the live effect's handleChange is on
    camera,         \* identity of the default camera (the effect's dep)
    tape,           \* SpecSynth: the draws handed to the synthesizer
    out             \* SpecSynth: what the synthesizer returned

vars == <<mounted, selectedID, activeSensor, mountains, gltfCache, gltfPending,
          scene, event, controlsRef, nextController, listeners, effectTarget,
          camera, tape, out>>

dashVars == <<mounted, selectedID, activeSensor, mountains, gltfCache,
              gltfPending, scene, event>>

loggerVars == <<controlsRef, nextController, listeners, effectTarget, camera>>

synthVars == <<tape, out>>

----------------------------------------------------------------------------
(* Bounds of the model *)

\* Math.random() returns k / RandDen, k in 0 .. RandDen-1
RandDen == 1000

\* number of generator states a render may start from
NumSeeds == 3

\* distance between two consecutive draws of one render
Stride == 389

\* OrbitControls instances ever created
MaxControllers == 3

\* default cameras ever installed
MaxCameras == 2

----------------------------------------------------------------------------
(* Dataset registry *)

None == {}

Some(s) == {s}

RegionIds == {"m1", "m2"}

manualSensorPositions ==
    [m1 |-> << [x |-> 12519, y |-> 8663,  z |-> -2433, label |-> "North Ridge"],
               [x |-> 1500,  y |-> 9963,  z |-> -1000, label |-> "South Peak"],
               [x |-> 0,     y |-> 9463,  z |-> 2000,  label |-> "Base Camp"],
               [x |-> -9500, y |-> 10050, z |-> 0,     label |-> "Summit Point"],
               [x |-> 7000,  y |-> 11663, z |-> 1500,  label |-> "Valley Floor"],
               [x |-> -1800, y |-> 9663,  z |-> -9000, label |-> "East Slope"],
               [x |-> 9500,  y |-> 9063,  z |-> -5800, label |-> "South Base"] >>,
     m2 |-> << [x |-> 12519,  y |-> 5863, z |-> -2433, label |-> "North Ridge"],
               [x |-> 1500,   y |-> 6863, z |-> -1000, label |-> "South Peak"],
               [x |-> -4500,  y |-> 7463, z |-> 2000,  label |-> "Base Camp"],
               [x |-> -16500, y |-> 6550, z |-> 0,     label |-> "Summit Point"] >>]

\* the second argument of the two generateSensorsFromPositions calls
MountainNumber == [m1 |-> 1, m2 |-> 2]

MountainName == [m1 |-> "Kashmir Valley", m2 |-> "Mandi Ridge"]

MountainPath == [m1 |-> "/mountain1.glb", m2 |-> "/mountain2.glb"]

----------------------------------------------------------------------------
(* Sensor synthesizer *)

RECURSIVE Pow10(_)
Pow10(dp) == IF dp = 0 THEN 1 ELSE 10 * Pow10(dp - 1)

\* Number.prototype.toFixed(dp) of num/den >= 0: the integer n with
\* n / 10^dp nearest to num/den, the larger one on a tie.
ToFixed(num, den, dp) == (2 * num * Pow10(dp) + den) \div (2 * den)

\* `${(Math.random() * scale + offset).toFixed(dp)}<unit>` for the draw u
Metric(u, scale, offset, dp, unit) ==
    [n |-> ToFixed(scale * u + offset * RandDen, RandDen, dp), dp |-> dp, unit |-> unit]

\* Math.random() > num/10 for the draw u
Above(u, tenths) == 10 * u > tenths * RandDen

\* RiskOf with the two thresholds exchanged
RiskOf_SwappedThresholds(rnd, k) ==
    IF ~Above(rnd[k], 4) THEN [risk |-> "LOW", next |-> k + 1]
    ELSE IF Above(rnd[k + 1], 7) THEN [risk |-> "HIGH", next |-> k + 2]
    ELSE [risk |-> "MEDIUM", next |-> k + 2]

\* Math.random() > 0.7 ? "HIGH" : Math.random() > 0.4 ? "MEDIUM" : "LOW".
\* rnd[k] is the next draw; next is the index of the first draw not consumed.
RiskOf(rnd, k) ==
    IF Above(rnd[k], 7) THEN [risk |-> "HIGH", next |-> k + 1]
    ELSE IF Above(rnd[k + 1], 4) THEN [risk |-> "MEDIUM", next |-> k + 2]
    ELSE [risk |-> "LOW", next |-> k + 2]

\* SensorId counting anchors from 1
SensorId_OneBased(mountainId, i) == mountainId * 100 + i + 1

\* id: mountainId * 100 + i
SensorId(mountainId, i) == mountainId * 100 + i

\* Temp with 15 for the offset 5
Temp_WrongOffset(u) == Metric(u, 15, 15, 1, "degC")

\* temp: `${(Math.random() * 15 + 5).toFixed(1)} C`
Temp(u) == Metric(u, 15, 5, 1, "degC")

Hum(u) == Metric(u, 30, 60, 0, "%")

Wind(u) == Metric(u, 30, 10, 0, "km/h")

Moisture(u) == Metric(u, 5, 7, 1, "g/m3")

\* the callback of positions.map for the anchor pos at (0-based) index i
SensorAt(pos, mountainId, i, rnd, k) ==
    LET r == RiskOf(rnd, k + 4)
    IN  [sensor |-> [id       |-> SensorId(mountainId, i),
                     label    |-> pos.label,
                     pos      |-> <<pos.x, pos.y, pos.z>>,
                     temp     |-> Temp(rnd[k]),
                     hum      |-> Hum(rnd[k + 1]),
                     wind     |-> Wind(rnd[k + 2]),
                     moisture |-> Moisture(rnd[k + 3]),
                     risk     |-> r.risk],
         next   |-> r.next]

RECURSIVE MapPositions(_, _, _, _, _)
MapPositions(positions, mountainId, i, rnd, k) ==
    IF i >= Len(positions) THEN [sensors |-> <<>>, next |-> k]
    ELSE LET first == SensorAt(positions[i + 1], mountainId, i, rnd, k)
             rest  == MapPositions(positions, mountainId, i + 1, rnd, first.next)
         IN  [sensors |-> <<first.sensor>> \o rest.sensors, next |-> rest.next]

generateSensorsFromPositions(positions, mountainId, rnd, k) ==
    MapPositions(positions, mountainId, 0, rnd, k)

\* the most draws one sensor takes
DrawsPerSensor == 6

DrawsPerRender ==
    DrawsPerSensor * (Len(manualSensorPositions.m1) + Len(manualSensorPositions.m2))

\* the draws of one render, the generator starting in state seed
RenderTape(seed) ==
    [j \in 1 .. DrawsPerRender |-> (seed + (j - 1) * Stride) % RandDen]

Seeds == {(s * RandDen) \div NumSeeds : s \in 0 .. NumSeeds - 1}

\* const mountains = { m1: {...}, m2: {...} }, m1's sensors drawn first
Mountains(rnd) ==
    LET g1 == generateSensorsFromPositions(manualSensorPositions.m1, MountainNumber.m1, rnd, 1)
        g2 == generateSensorsFromPositions(manualSensorPositions.m2, MountainNumber.m2, rnd, g1.next)
    IN  [m1 |-> [name |-> MountainName.m1, path |-> MountainPath.m1, sensors |-> g1.sensors],
         m2 |-> [name |-> MountainName.m2, path |-> MountainPath.m2, sensors |-> g2.sensors]]

\* the `mountains` of a render, by the generator state it starts from
RenderedMountains == [seed \in Seeds |-> Mountains(RenderTape(seed))]

----------------------------------------------------------------------------
(* Scene composer: the children of <Suspense> and what the boundary shows *)

\* isActive={activeSensor?.id === sensor.id}
IsActive(act, sensor) == \E a \in act : a.id = sensor.id

\* the <MountainModel> and <SensorNode> elements a render produces
Elements(m, sel, act) ==
    [path    |-> m[sel].path,
     markers |-> [i \in 1 .. Len(m[sel].sensors) |->
                    [data     |-> m[sel].sensors[i],
                     isActive |-> IsActive(act, m[sel].sensors[i])]]]

\* nothing committed inside the boundary yet
EmptyScene == [fallback |-> TRUE, path |-> "", markers |-> <<>>]

\* Commit revealing the children once any asset is resolved
Commit_AnyAssetCached(prev, el, cache) ==
    IF cache # {}
    THEN [fallback |-> FALSE, path |-> el.path, markers |-> el.markers]
    ELSE [fallback |-> TRUE, path |-> prev.path, markers |-> prev.markers]

\* <Suspense fallback=...>: useGLTF(el.path) suspends unless the asset is
\* resolved; a suspended boundary shows the fallback and keeps what it had
\* committed before, hidden.
Commit(prev, el, cache) ==
    IF el.path \in cache
    THEN [fallback |-> FALSE, path |-> el.path, markers |-> el.markers]
    ELSE [fallback |-> TRUE, path |-> prev.path, markers |-> prev.markers]

\* useGLTF(url) starts a load unless the asset is resolved or in flight
StartLoad(pending, url, cache) ==
    IF url \in cache THEN pending ELSE pending \cup {url}

\* the markers a pointer can reach
VisibleMarkers == IF scene.fallback THEN <<>> ELSE scene.markers

TerrainVisible == ~scene.fallback

\* const current = mountains[selectedID]
Current == mountains[selectedID]

----------------------------------------------------------------------------
(* Selection state *)

NoEvent == [kind |-> "none", region |-> "", data |-> None, hadActive |-> FALSE, tick |-> 0]

Handled(kind, region, data) ==
    [kind |-> kind, region |-> region, data |-> data,
     hadActive |-> activeSensor # None, tick |-> 1 - event.tick]

\* A state update and the render it schedules: the component function runs
\* again (new `mountains`, fresh draws) and the boundary commits the result.
\* changed is FALSE when every setState call was given the value it holds,
\* and React then skips the render.
Update(newSel, newActive, changed) ==
    /\ selectedID' = newSel
    /\ activeSensor' = newActive
    /\ IF changed
       THEN \E seed \in Seeds :
              LET m  == RenderedMountains[seed]
                  el == Elements(m, newSel, newActive)
              IN  /\ mountains' = m
                  /\ scene' = Commit(scene, el, gltfCache)
                  /\ gltfPending' = StartLoad(gltfPending, el.path, gltfCache)
       ELSE UNCHANGED <<mountains, scene, gltfPending>>
    /\ UNCHANGED <<mounted, gltfCache>>

\* OnChange without setActiveSensor(null)
OnChange_KeepsSensor(id) == [selectedID |-> id, activeSensor |-> activeSensor]

\* OnChange without setSelectedID
OnChange_KeepsRegion(id) == [selectedID |-> selectedID, activeSensor |-> None]

\* onChange: setSelectedID(e.target.value); setActiveSensor(null)
OnChange(id) == [selectedID |-> id, activeSensor |-> None]

SelectRegion(id) ==
    /\ mounted
    /\ LET s == OnChange(id)
       IN  Update(s.selectedID, s.activeSensor,
                  s.selectedID # selectedID \/ s.activeSensor # activeSensor)
    /\ event' = Handled("selectRegion", id, None)
    /\ UNCHANGED <<loggerVars, synthVars>>

\* SetActiveSensor ignoring a record that is not in the current list
SetActiveSensor_Guarded(data) ==
    IF \E i \in 1 .. Len(Current.sensors) : Current.sensors[i] = data
    THEN Some(data) ELSE activeSensor

\* SetActiveSensor closing the panel when the active marker is clicked
SetActiveSensor_Toggle(data) ==
    IF IsActive(activeSensor, data) THEN None ELSE Some(data)

\* onSelect={setActiveSensor}
SetActiveSensor(data) == Some(data)

\* onClick={() => onSelect(data)} of the i-th marker on screen; data is a
\* record object of the render that produced the marker, never the object
\* activeSensor holds, so the update always re-renders
ClickMarker(i) ==
    /\ mounted
    /\ i \in 1 .. Len(VisibleMarkers)
    /\ Update(selectedID, SetActiveSensor(VisibleMarkers[i].data), TRUE)
    /\ event' = Handled("click", selectedID, Some(VisibleMarkers[i].data))
    /\ UNCHANGED <<loggerVars, synthVars>>

\* onClick={() => setActiveSensor(null)} of the panel's close button, which
\* exists only while activeSensor is set
CloseDetail ==
    /\ mounted
    /\ activeSensor # None
    /\ Update(selectedID, None, TRUE)
    /\ event' = Handled("close", selectedID, None)
    /\ UNCHANGED <<loggerVars, synthVars>>

\* setActiveSensor called with any sensor record of the latest render, of
\* either region (the operation behind onSelect, without the marker)
SelectSensor(data) ==
    /\ mounted
    /\ Update(selectedID, SetActiveSensor(data), TRUE)
    /\ event' = Handled("selectSensor", selectedID, Some(data))
    /\ UNCHANGED <<loggerVars, synthVars>>

\* a terrain load resolves: the asset is cached and the suspended boundary
\* renders its children again, whichever region the load was started for
LoadComplete(url) ==
    /\ url \in gltfPending
    /\ gltfCache' = gltfCache \cup {url}
    /\ gltfPending' = gltfPending \ {url}
    /\ scene' = IF mounted /\ scene.fallback
                THEN Commit(scene, Elements(mountains, selectedID, activeSensor), gltfCache')
                ELSE scene
    /\ UNCHANGED <<mounted, selectedID, activeSensor, mountains, event,
                   loggerVars, synthVars>>

----------------------------------------------------------------------------
(* Camera observer *)

Controllers == 1 .. MaxControllers

\* the effect body: if (!controlsRef.current) return; ...addEventListener
RunEffect(ref, ls) ==
    IF ref = 0 THEN [listeners |-> ls, target |-> 0]
    ELSE [listeners |-> [ls EXCEPT ![ref] = @ + 1], target |-> ref]

\* the cleanup the effect returned (none when it returned early), run with
\* the value controlsRef.current has by then; removeEventListener finds
\* handleChange only on the controller it was added to
RunCleanup(ref, ls, target) ==
    IF target # 0 /\ ref # 0 /\ ref = target
    THEN [ls EXCEPT ![ref] = @ - 1]
    ELSE ls

\* CameraLogger mounts: <OrbitControls ref={controlsRef}> creates a
\* controller, the ref is attached, then the effect runs
MountLogger ==
    /\ nextController <= MaxControllers
    /\ controlsRef' = nextController
    /\ nextController' = nextController + 1
    /\ LET e == RunEffect(nextController, listeners)
       IN  listeners' = e.listeners /\ effectTarget' = e.target
    /\ UNCHANGED camera

\* CameraLogger unmounts: React detaches the refs of the deleted tree when
\* it commits the deletion and runs the passive effect cleanups afterwards
\* (React 17 and later, which @react-three/fiber requires)
UnmountLogger ==
    /\ controlsRef' = 0
    /\ listeners' = RunCleanup(0, listeners, effectTarget)
    /\ effectTarget' = 0
    /\ UNCHANGED <<nextController, camera>>

\* useThree() hands CameraLogger another camera (makeDefault): the effect's
\* dependency changed, so its cleanup runs and then the effect again.  The
\* library may keep the controller or build one for the new camera; the ref
\* is re-attached before the cleanup runs.
CameraChange ==
    /\ mounted
    /\ camera < MaxCameras
    /\ camera' = camera + 1
    /\ \E recreate \in BOOLEAN :
         /\ recreate => nextController <= MaxControllers
         /\ controlsRef' = IF recreate THEN nextController ELSE controlsRef
         /\ nextController' = IF recreate THEN nextController + 1 ELSE nextController
         /\ LET cleaned == RunCleanup(controlsRef', listeners, effectTarget)
                e == RunEffect(controlsRef', cleaned)
            IN  listeners' = e.listeners /\ effectTarget' = e.target
    /\ UNCHANGED <<dashVars, synthVars>>

----------------------------------------------------------------------------
(* Mounting and unmounting the dashboard *)

InitDashboard(seed) ==
    /\ mounted = TRUE
    /\ selectedID = "m1"
    /\ activeSensor = None
    /\ mountains = RenderedMountains[seed]
    /\ gltfCache = {}
    /\ gltfPending = {MountainPath.m1}
    /\ scene = EmptyScene
    /\ event = NoEvent

InitLogger ==
    /\ controlsRef = 1
    /\ nextController = 2
    /\ listeners = [c \in Controllers |-> IF c = 1 THEN 1 ELSE 0]
    /\ effectTarget = 1
    /\ camera = 1

NoOutput == [sensors |-> <<>>, next |-> 0]

NoTape == [region |-> "m1", rnd |-> <<>>]

Init ==
    /\ \E seed \in Seeds : InitDashboard(seed)
    /\ InitLogger
    /\ tape = NoTape
    /\ out = NoOutput

\* the page is torn down: every component unmounts, the asset cache (module
\* state of the loader) and loads in flight survive
Unmount ==
    /\ mounted
    /\ mounted' = FALSE
    /\ selectedID' = "m1"
    /\ activeSensor' = None
    /\ scene' = EmptyScene
    /\ event' = NoEvent
    /\ UnmountLogger
    /\ UNCHANGED <<mountains, gltfCache, gltfPending, synthVars>>

\* the dashboard mounts again: useState initial values, a first render
Mount ==
    /\ ~mounted
    /\ mounted' = TRUE
    /\ selectedID' = "m1"
    /\ activeSensor' = None
    /\ \E seed \in Seeds :
         LET m  == RenderedMountains[seed]
             el == Elements(m, "m1", None)
         IN  /\ mountains' = m
             /\ scene' = Commit(EmptyScene, el, gltfCache)
             /\ gltfPending' = StartLoad(gltfPending, el.path, gltfCache)
    /\ event' = NoEvent
    /\ MountLogger
    /\ UNCHANGED <<gltfCache, synthVars>>

Next ==
    \/ \E id \in RegionIds : SelectRegion(id)
    \/ \E i \in 1 .. Len(manualSensorPositions.m1) : ClickMarker(i)
    \/ CloseDetail
    \/ \E url \in {MountainPath[r] : r \in RegionIds} : LoadComplete(url)
    \/ CameraChange
    \/ Unmount
    \/ Mount

Spec == Init /\ [][Next]_vars

----------------------------------------------------------------------------
(* The interaction controller called directly *)

SensorsOf(m) == UNION {{m[r].sensors[i] : i \in 1 .. Len(m[r].sensors)} : r \in RegionIds}

NextApi ==
    \/ \E id \in RegionIds : SelectRegion(id)
    \/ \E data \in SensorsOf(mountains) : SelectSensor(data)
    \/ CloseDetail
    \/ \E url \in {MountainPath[r] : r \in RegionIds} : LoadComplete(url)

SpecApi == Init /\ [][NextApi]_vars

----------------------------------------------------------------------------
(* The synthesizer applied to chosen draws *)

\* draws at and next to the thresholds 0.4 and 0.7 and the ends of [0,1)
CoarseDraws ==
    {0, (4 * RandDen) \div 10, (4 * RandDen) \div 10 + 1,
        (7 * RandDen) \div 10, (7 * RandDen) \div 10 + 1, RandDen - 1}

\* one draw anywhere in [0,1), the other five alike from CoarseDraws
SynthTapes ==
    {[region |-> r,
      rnd    |-> [j \in 1 .. DrawsPerSensor |-> IF j = slot THEN u ELSE v]] :
        r \in RegionIds, slot \in 1 .. DrawsPerSensor,
        u \in 0 .. RandDen - 1, v \in CoarseDraws}

InitSynth ==
    /\ InitDashboard(0)
    /\ InitLogger
    /\ tape \in SynthTapes
    /\ out = NoOutput

\* generateSensorsFromPositions on the first anchor of the region
Synthesize ==
    /\ out = NoOutput
    /\ out' = generateSensorsFromPositions(
                  SubSeq(manualSensorPositions[tape.region], 1, 1),
                  MountainNumber[tape.region], tape.rnd, 1)
    /\ UNCHANGED <<dashVars, loggerVars, tape>>

NextSynth == Synthesize

SpecSynth == InitSynth /\ [][NextSynth]_vars

----------------------------------------------------------------------------
(* Properties *)

\* the numeric value n / 10^dp of a formatted metric lies in [lo, hi)
InHalfOpen(m, lo, hi) == lo * Pow10(m.dp) <= m.n /\ m.n < hi * Pow10(m.dp)

\* the numeric value n / 10^dp of a formatted metric lies in [lo, hi]
InClosed(m, lo, hi) == lo * Pow10(m.dp) <= m.n /\ m.n <= hi * Pow10(m.dp)

IdsOf(sensors) == {sensors[i].id : i \in 1 .. Len(sensors)}

ActiveMarkers == {i \in 1 .. Len(VisibleMarkers) : VisibleMarkers[i].isActive}

\* C1: while the dashboard is mounted, activeSensor, when present, is one of
\* the records of the sensor list of the selected region as the latest
\* render synthesized it.
C1_ActiveSensorInCurrentList ==
    mounted =>
        \A a \in activeSensor :
            \E i \in 1 .. Len(Current.sensors) : Current.sensors[i] = a

\* C2: a step that handles the region picker's change event for id ends
\* with selectedID = id and activeSensor = null, and no step changes
\* selectedID and leaves a sensor active.
C2_SelectRegionClears ==
    [][ /\ (event'.tick # event.tick /\ event'.kind = "selectRegion")
            => (selectedID' = event'.region /\ activeSensor' = None)
        /\ (mounted /\ mounted' /\ selectedID' # selectedID)
            => activeSensor' = None ]_vars

\* C2 witness: the picker was used while a sensor was active
C2_Witness ==
    /\ event.kind = "selectRegion"
    /\ event.hadActive
    /\ event.region = "m2"
    /\ selectedID = "m2"
    /\ activeSensor = None

\* C3 as claimed: selectSensor called with a record that is not in the
\* selected region's current list changes neither selectedID nor
\* activeSensor.
C3_ForeignSensorIsNoOp ==
    [][ ( /\ event'.tick # event.tick
          /\ event'.kind = "selectSensor"
          /\ \A d \in event'.data :
               \A i \in 1 .. Len(Current.sensors) : Current.sensors[i] # d )
        => UNCHANGED <<selectedID, activeSensor>> ]_vars

\* C3 as amended: selectSensor makes the record it is given the active
\* sensor, whether or not the record is in the selected region's current
\* list, and leaves selectedID alone.
C3_SelectSensorAlwaysSets ==
    [][ (event'.tick # event.tick /\ event'.kind = "selectSensor")
        => (activeSensor' = event'.data /\ selectedID' = selectedID) ]_vars

\* C3 witness: a record of the region that is not selected became active
C3_Witness ==
    /\ event.kind = "selectSensor"
    /\ activeSensor = event.data
    /\ activeSensor # None
    /\ \A a \in activeSensor : a.id \notin IdsOf(Current.sensors)

\* C4: every render's list for a region has one sensor per anchor, in anchor
\* order, the sensor at (0-based) index i with id number*100 + i and the
\* label and position of anchor i; ids are pairwise distinct, 100..106 for
\* m1 and 200..203 for m2.
C4_OneSensorPerAnchor ==
    /\ \A r \in RegionIds :
         LET sensors == mountains[r].sensors
             anchors == manualSensorPositions[r]
         IN  /\ Len(sensors) = Len(anchors)
             /\ \A i \in 1 .. Len(sensors) :
                  /\ sensors[i].id = MountainNumber[r] * 100 + (i - 1)
                  /\ sensors[i].label = anchors[i].label
                  /\ sensors[i].pos = <<anchors[i].x, anchors[i].y, anchors[i].z>>
             /\ Cardinality(IdsOf(sensors)) = Len(sensors)
    /\ IdsOf(mountains.m1.sensors) = 100 .. 106
    /\ IdsOf(mountains.m2.sensors) = 200 .. 203

\* C4 witness: the list of m2, synthesized again after the picker was used
C4_Witness ==
    /\ event.kind = "selectRegion"
    /\ selectedID = "m2"
    /\ Len(Current.sensors) = 4
    /\ Current.sensors[4].id = 203

\* C5: a step that handles a click on a marker ends with activeSensor the
\* record the marker was rendered from, a record of the displayed region's
\* list before the click, whatever activeSensor was, and with selectedID
\* as it was.
C5_ClickSelectsMarkerRecord ==
    [][ (event'.tick # event.tick /\ event'.kind = "click")
        => /\ activeSensor' = event'.data
           /\ \E i \in 1 .. Len(VisibleMarkers) :
                /\ event'.data = Some(VisibleMarkers[i].data)
                /\ VisibleMarkers[i].data = Current.sensors[i]
           /\ selectedID' = selectedID ]_vars

\* C5 witness: "Base Camp" clicked while another sensor was active
C5_Witness ==
    /\ event.kind = "click"
    /\ event.hadActive
    /\ \E a \in activeSensor : a.label = "Base Camp" /\ a.id = 102

\* C6 as claimed: each metric of a synthesized sensor carries a number in
\* its closed-open range: temp [5,20), hum [60,90), wind [10,40),
\* moisture [7,12).
C6_MetricsInHalfOpenRanges ==
    \A i \in 1 .. Len(out.sensors) :
        /\ InHalfOpen(out.sensors[i].temp, 5, 20)
        /\ InHalfOpen(out.sensors[i].hum, 60, 90)
        /\ InHalfOpen(out.sensors[i].wind, 10, 40)
        /\ InHalfOpen(out.sensors[i].moisture, 7, 12)

\* C6 as amended: each metric of a synthesized sensor carries a number in
\* its closed range: temp [5,20], hum [60,90], wind [10,40], moisture
\* [7,12]; toFixed rounds a value close to the upper bound up to it.
C6_MetricsInClosedRanges ==
    \A i \in 1 .. Len(out.sensors) :
        /\ InClosed(out.sensors[i].temp, 5, 20)
        /\ InClosed(out.sensors[i].hum, 60, 90)
        /\ InClosed(out.sensors[i].wind, 10, 40)
        /\ InClosed(out.sensors[i].moisture, 7, 12)

\* C6 witness: a sensor whose temperature reads 20.0
C6_Witness ==
    /\ Len(out.sensors) = 1
    /\ out.sensors[1].temp.n = 20 * Pow10(out.sensors[1].temp.dp)

\* C7: with u1, u2 the fifth and sixth draw of a sensor, its risk is HIGH
\* when u1 > 0.7, else MEDIUM when u2 > 0.4, else LOW; it is one of the
\* three; the sensor consumes five draws when u1 > 0.7 and six otherwise.
C7_RiskFromTwoDraws ==
    \A i \in 1 .. Len(out.sensors) :
        LET u1 == tape.rnd[5]
            u2 == tape.rnd[6]
            risk == out.sensors[i].risk
        IN  /\ risk \in {"LOW", "MEDIUM", "HIGH"}
            /\ (risk = "HIGH") = (10 * u1 > 7 * RandDen)
            /\ (risk = "MEDIUM") = (10 * u1 <= 7 * RandDen /\ 10 * u2 > 4 * RandDen)
            /\ (risk = "LOW") = (10 * u1 <= 7 * RandDen /\ 10 * u2 <= 4 * RandDen)
            /\ out.next - 1 = IF 10 * u1 > 7 * RandDen THEN 5 ELSE 6

\* C7 witness: the first draw at most 0.7 and the second above 0.4
C7_Witness ==
    /\ Len(out.sensors) = 1
    /\ 10 * tape.rnd[5] <= 7 * RandDen
    /\ 10 * tape.rnd[5] > 4 * RandDen
    /\ out.sensors[1].risk = "MEDIUM"
    /\ out.next = 7

C9_ListenerRemovedOnUnmount ==
    /\ ~mounted => \A c \in Controllers : listeners[c] = 0
    /\ \A c \in Controllers : listeners[c] <= 1

====
